---- MODULE Spec2Model ----
(***************************************************************************)
(* Model of imnet_extract/train.py: the TrainerState bundle (save/load),   *)
(* and the Trainer orchestrator (__call__ = process-group setup, state     *)
(* init-or-resume, inference loop; checkpoint() = preemption hook).        *)
(*                                                                         *)
(* One worker process is alive at a time; a relaunch starts a new process  *)
(* with a config-only Trainer on the same filesystem.                      *)
(***************************************************************************)
EXTENDS Integers, Sequences, FiniteSets, TLC

(***************************************************************************)
(* Bounds                                                                  *)
(***************************************************************************)
NumKeys == 2        \* number of parameter tensors of the backbone
MaxVal == 2         \* an earlier checkpoint holds one of MaxVal contents
MaxSamples == 3     \* dataset sizes 1..MaxSamples
MaxBatch == 2       \* batch_per_gpu ranges over 1..MaxBatch
MaxLaunches == 2    \* processes started on the same job (first run + requeues)

(***************************************************************************)
(* Values                                                                  *)
(***************************************************************************)
KeyNames == <<"conv.weight", "fc.weight", "fc.bias", "bn.weight", "bn.bias">>
ModelKeys == {KeyNames[i] : i \in 1..NumKeys}
ExtraKey == "module.aux.weight"     \* a pretrained key no target key matches

\* 'module.'+k  (train.py:138)
Prefix(k) == "module." \o k

\* Paths are sequences of components; osp.join(a, b) appends b to a.
osp_join(a, b) == a \o <<b>>

\* str(prefix)+name: the name continues the last component of the prefix.
path_concat(prefix, name) ==
    SubSeq(prefix, 1, Len(prefix) - 1) \o <<prefix[Len(prefix)] \o name>>

\* os.path.dirname
dirname(p) == SubSeq(p, 1, Len(p) - 1)

\* str(job_id), str(epoch)
str(n) == ToString(n)

\* Configured architecture names: one that a branch of _init_state
\* (train.py:123-130) matches, and one that no branch matches.
Architectures == {"ResNet50", "ResNet18"}

(***************************************************************************)
(* Configuration (TrainerConfig, ClusterConfig): read-only to the core.    *)
(***************************************************************************)
TrainerConfig(arch, bs) ==
    [architecture |-> arch, dataset_path |-> <<"data", "val">>,
     weight_path |-> <<"weights", "pretrained.pth">>,
     save_folder |-> <<"ckpt">>, save_path |-> <<"out", "val_">>, job_id |-> 7,
     batch_per_gpu |-> bs, local_rank |-> 0, global_rank |-> 0,
     num_tasks |-> 1]

\* dist_url is 'file://' followed by the path of the rendezvous file; the
\* URL is kept as its 7 prefix characters followed by the path components.
ClusterConfig ==
    [dist_backend |-> "nccl",
     dist_url |-> <<"f", "i", "l", "e", ":", "/", "/", "rdv", "init">>]

(***************************************************************************)
(* Filesystem contents                                                     *)
(***************************************************************************)
\* A completely written file holding a pickled object and/or an array.
File(obj, arr) == [complete |-> TRUE, obj |-> obj, arr |-> arr]
\* A file opened for writing whose contents were not (yet) written.
Truncated == [complete |-> FALSE, obj |-> <<>>, arr |-> <<>>]

\* The tensor the pretrained-weight file holds under a key: a different one
\* for every key (0 is kept for a freshly constructed tensor).
PretrainedTensor(pk) ==
    IF \E i \in 1..Len(KeyNames) : Prefix(KeyNames[i]) = pk
    THEN CHOOSE i \in 1..Len(KeyNames) : Prefix(KeyNames[i]) = pk
    ELSE Len(KeyNames) + 1

\* The pretrained mappings: any subset of the keys may be present.
Dicts(keys) == {[pk \in S |-> PretrainedTensor(pk)] : S \in SUBSET keys}

(***************************************************************************)
(* nn.Module as far as the trainer uses it                                 *)
(***************************************************************************)
\* A backbone right after construction: torch.manual_seed(0) makes the
\* initial tensors the same in every process (value 0 here).
NewModel ==
    [params |-> [k \in ModelKeys |-> 0],
     requires_grad |-> [k \in ModelKeys |-> TRUE],
     ddp |-> FALSE, training |-> TRUE]

\* model.state_dict(): the parameter mapping; a DistributedDataParallel
\* wrapper exposes the wrapped module under the name 'module'.
state_dict(m) ==
    IF m.ddp
    THEN [pk \in {Prefix(k) : k \in DOMAIN m.params} |->
              m.params[CHOOSE k \in DOMAIN m.params : Prefix(k) = pk]]
    ELSE m.params

\* model.load_state_dict(sd) is strict: it raises unless the keys of sd are
\* exactly the keys of the model's own state_dict.
load_state_dict_ok(m, sd) == DOMAIN sd = DOMAIN state_dict(m)

\* Every tensor whose key sd holds is copied, also when the call then
\* raises for the missing or unexpected keys.
load_state_dict(m, sd) ==
    [m EXCEPT !.params =
        [k \in DOMAIN m.params |->
            LET key == IF m.ddp THEN Prefix(k) ELSE k
            IN IF key \in DOMAIN sd THEN sd[key] ELSE m.params[k]]]

\* A freeze that leaves one parameter trainable, as when a classifier head
\* is kept for fine-tuning.
freeze_except_one(m) ==
    [m EXCEPT !.requires_grad =
        [k \in DOMAIN m.params |->
            k = CHOOSE x \in DOMAIN m.params : TRUE]]

\* for name, child in model.named_children(): ... requires_grad = False
freeze(m) == [m EXCEPT !.requires_grad = [k \in DOMAIN m.params |-> FALSE]]

\* torch.nn.parallel.DistributedDataParallel(model, ...)
DistributedDataParallel(m) == [m EXCEPT !.ddp = TRUE]

\* torch.cuda.is_available(): _setup_process_group has already bound a CUDA
\* device by the time _init_state asks.
cuda_is_available == TRUE

(***************************************************************************)
(* The weight loader (train.py:132-144)                                    *)
(***************************************************************************)
\* copy_loop looking the target key up without the 'module.' prefix.
RECURSIVE copy_loop_unprefixed(_, _, _)
copy_loop_unprefixed(keys, pretrained_dict, acc) ==
    IF keys = <<>> THEN acc
    ELSE LET k == Head(keys)
             hit == k \in DOMAIN pretrained_dict
         IN copy_loop_unprefixed(Tail(keys), pretrained_dict,
              [model_dict |-> IF hit
                              THEN [acc.model_dict EXCEPT
                                        ![k] = pretrained_dict[k]]
                              ELSE acc.model_dict,
               count |-> acc.count + 1,
               count2 |-> IF hit THEN acc.count2 + 1 ELSE acc.count2])

\* The loop over model_dict.keys(): acc carries model_dict, count, count2.
RECURSIVE copy_loop(_, _, _)
copy_loop(keys, pretrained_dict, acc) ==
    IF keys = <<>> THEN acc
    ELSE LET k == Head(keys)
             hit == Prefix(k) \in DOMAIN pretrained_dict
         IN copy_loop(Tail(keys), pretrained_dict,
              [model_dict |-> IF hit
                              THEN [acc.model_dict EXCEPT
                                        ![k] = pretrained_dict[Prefix(k)]]
                              ELSE acc.model_dict,
               count |-> acc.count + 1,
               count2 |-> IF hit THEN acc.count2 + 1 ELSE acc.count2])

\* model_dict.keys() in the model's registration order.
keys_of(model_dict) ==
    SelectSeq(KeyNames, LAMBDA k : k \in DOMAIN model_dict)

load_weights(model_dict, pretrained_dict) ==
    copy_loop(keys_of(model_dict), pretrained_dict,
              [model_dict |-> model_dict, count |-> 0, count2 |-> 0])

\* coverage_ok accepting any coverage of at least one half.
coverage_ok_half(count, count2) == (count2 * 100) \div count >= 50

\* int(count2*100/count) == 100
coverage_ok(count, count2) == (count2 * 100) \div count = 100

(***************************************************************************)
(* TrainerState (train.py:27-51)                                           *)
(***************************************************************************)
\* The attrs fields of the class: a single one.
TrainerStateFields == {"model"}

TrainerState(model) == [model |-> model]

\* attribute lookup on an object; a missing attribute raises AttributeError
HasAttr(obj, name) == name \in DOMAIN obj

SetAttr(obj, name, val) ==
    [a \in DOMAIN obj \cup {name} |-> IF a = name THEN val ELSE obj[a]]

\* save that also records the position of the loop in the stored mapping.
save_data_with_position(state) ==
    [f \in TrainerStateFields \cup {"it"} |->
        IF f = "model" THEN state_dict(state.model) ELSE 0]

\* save: data = attr.asdict(self); data["model"] = self.model.state_dict()
save_data(state) ==
    [f \in TrainerStateFields |->
        IF f = "model" THEN state_dict(state.model) ELSE state[f]]

\* torch.load(filename) succeeds on a completely written file only.
torch_load_ok(files, filename) ==
    filename \in DOMAIN files /\ files[filename].complete

\* load that tolerates missing keys (load_state_dict with strict=False).
load_ok_lenient(files, filename, default) ==
    /\ torch_load_ok(files, filename)
    /\ "model" \in DOMAIN files[filename].obj

\* load succeeds when the file unpickles, the stored mapping fits the
\* template's model, and the stored keys are the constructor's arguments.
load_ok(files, filename, default) ==
    /\ torch_load_ok(files, filename)
    /\ "model" \in DOMAIN files[filename].obj
    /\ load_state_dict_ok(default.model, files[filename].obj["model"])
    /\ DOMAIN files[filename].obj = TrainerStateFields

\* load that returns the template without loading the stored mapping.
load_template(files, filename, default) == default

\* load: model = default.model; model.load_state_dict(data["model"]);
\* data["model"] = model; return cls(**data)
load(files, filename, default) ==
    LET data == files[filename].obj
    IN [f \in DOMAIN data |->
          IF f = "model" THEN load_state_dict(default.model, data["model"])
          ELSE data[f]]

(***************************************************************************)
(* State                                                                   *)
(***************************************************************************)
VARIABLES
    fs,           \* files: path -> contents
    dirs,         \* directories created by os.makedirs
    self,         \* the live Trainer instance: attribute name -> value
    pc,           \* lifecycle position of the worker process
    ck,           \* position inside checkpoint(): "idle" when not running
    rm_init,      \* argument of the running checkpoint() call
    ck_from,      \* lifecycle position checkpoint() was called in, "" if none
    err,          \* exception that ended the process, "" if none
    final_acc,    \* return value of __call__: <<>> until it returns
    empty_trainer,\* return value of checkpoint(): <<>> until it returns
    locals,       \* _init_state's model, count, count2 between its steps
    it,           \* number of batches the loop of _train has consumed
    softmax_probability, embedding, exctract_label,  \* <<>> is None
    saved,        \* number of np.save calls _train has completed
    group,        \* TRUE once init_process_group has returned
    launches,     \* processes started so far
    history,      \* state_dict at the end of each successful _init_state
    ranks         \* the worker processes of a run of several ranks, <<>> when
                  \* the run is the single process of the variables above

vars == <<fs, dirs, self, pc, ck, rm_init, ck_from, err, final_acc, empty_trainer,
          locals, it, softmax_probability, embedding, exctract_label, saved,
          group, launches, history, ranks>>

None == <<>>
Some(x) == <<x>>

Put(files, path, content) ==
    [p \in DOMAIN files \cup {path} |->
        IF p = path THEN content ELSE files[p]]

Remove(files, path) == [p \in DOMAIN files \ {path} |-> files[p]]

\* Trainer.__init__ (train.py:55-57)
Trainer(train_cfg, cluster_cfg) ==
    [_train_cfg |-> train_cfg, _cluster_cfg |-> cluster_cfg]

\* dist_url[7:]
rendezvous_file(cluster_cfg) ==
    SubSeq(cluster_cfg.dist_url, 8, Len(cluster_cfg.dist_url))

save_dir(train_cfg) == osp_join(train_cfg.save_folder, str(train_cfg.job_id))

checkpoint_fn(train_cfg) == osp_join(save_dir(train_cfg), "checkpoint.pth")

\* datasets.ImageFolder: samples in sorted (class, file) order
Samples(n) == [i \in 1..n |-> [image |-> i, label |-> (i - 1) \div 2]]

\* Mappings a checkpoint file left by an earlier job may hold: over the keys
\* of the wrapped model or with the first key missing; the tensors are the
\* pretrained ones (v = 1) or differ from them in every key (v > 1).
DDPKeys == {Prefix(k) : k \in ModelKeys}
CheckpointDicts ==
    {[pk \in S |-> PretrainedTensor(pk) + v - 1] :
        S \in {DDPKeys, DDPKeys \ {Prefix(KeyNames[1])}}, v \in 1..MaxVal}

InitialCheckpoints ==
    {None, Some(Truncated)}
        \cup {Some(File([model |-> sd], <<>>)) : sd \in CheckpointDicts}

Init ==
    \E arch \in Architectures, bs \in 1..MaxBatch, n \in 1..MaxSamples,
       pretrained_dict \in Dicts(DDPKeys \cup {ExtraKey}),
       c \in InitialCheckpoints :
        LET cfg == TrainerConfig(arch, bs)
            base == Put(Put(<<>>, cfg.weight_path,
                            File([model |-> pretrained_dict], <<>>)),
                        cfg.dataset_path, File(<<>>, Samples(n)))
        IN /\ fs = IF c = None THEN base
                   ELSE Put(base, checkpoint_fn(cfg), c[1])
           /\ dirs = IF c = None THEN {} ELSE {save_dir(cfg)}
           /\ self = Trainer(cfg, ClusterConfig)
    /\ pc = "UNSTARTED"
    /\ ck = "idle"
    /\ rm_init = TRUE
    /\ ck_from = ""
    /\ err = ""
    /\ final_acc = None
    /\ empty_trainer = None
    /\ locals = None
    /\ it = 0
    /\ softmax_probability = None
    /\ embedding = None
    /\ exctract_label = None
    /\ saved = 0
    /\ group = FALSE
    /\ launches = 1
    /\ history = <<>>
    /\ ranks = <<>>

(***************************************************************************)
(* Helpers of the actions                                                  *)
(***************************************************************************)
Alive == pc \in {"UNSTARTED", "GROUP_JOINED", "INIT_STATE", "STATE_READY",
                 "RUNNING"}

\* The main flow runs while no checkpoint() call has interrupted it.
Running(p) == pc = p /\ ck = "idle"

\* A dispatch with a final else branch that builds a default network.
backbone_default(architecture) == Some(NewModel)

\* The branches of train.py:123-130; <<>> when none binds `model`.
backbone(architecture) ==
    IF architecture = "PNASNet" THEN Some(NewModel)
    ELSE IF architecture = "ResNet50" THEN Some(NewModel)
    ELSE IF architecture = "IGAM_Resnext101_32x48d" THEN Some(NewModel)
    ELSE None

\* torch.utils.data.DataLoader(test_set, batch_size=..., shuffle=False)
DataLoader(test_set, batch_size) ==
    [dataset |-> test_set, batch_size |-> batch_size]

\* len(loader): the last batch may be smaller
num_batches(loader) ==
    (Len(loader.dataset) + loader.batch_size - 1) \div loader.batch_size

\* the j-th batch the loader yields (images, labels)
batch(loader, j) ==
    LET lo == (j - 1) * loader.batch_size + 1
        hi == IF j * loader.batch_size < Len(loader.dataset)
              THEN j * loader.batch_size ELSE Len(loader.dataset)
        part == SubSeq(loader.dataset, lo, hi)
    IN [images |-> [i \in 1..Len(part) |-> part[i].image],
        labels |-> [i \in 1..Len(part) |-> part[i].label]]

\* tensor.cuda(local_rank)
cuda(data, local_rank) == [device |-> local_rank, data |-> data]

\* self._state.model(images): (outputs, embed), one row per image
forward(m, images) ==
    [outputs |-> cuda([i \in 1..Len(images.data) |->
                          <<"logits", images.data[i]>>], images.device),
     embed |-> cuda([i \in 1..Len(images.data) |->
                          <<"embed", images.data[i]>>], images.device)]

\* nn.Softmax()(outputs), row by row
Softmax(outputs) ==
    [outputs EXCEPT !.data =
        [i \in 1..Len(outputs.data) |-> <<"softmax", outputs.data[i][2]>>]]

\* conv_numpy_tensor (train.py:23-25)
conv_numpy_tensor(output) == output.data

\* np.concatenate with the new rows put first.
np_concatenate_swapped(a, b) == b \o a

\* np.concatenate((a, b))
np_concatenate(a, b) == a \o b

\* the three output files of _train, in the order they are written
output_fn(cfg, i) ==
    IF i = 1 THEN path_concat(cfg.save_path, "labels.npy")
    ELSE IF i = 2
    THEN path_concat(cfg.save_path, cfg.architecture \o "_embedding.npy")
    ELSE path_concat(cfg.save_path, cfg.architecture \o "_softmax.npy")

loop_vars == <<it, softmax_probability, embedding, exctract_label, saved>>
ret_vars == <<final_acc, empty_trainer>>

(***************************************************************************)
(* Trainer.__call__ (train.py:59-68) step by step                          *)
(***************************************************************************)
\* _setup_process_group (train.py:86-94): init_process_group on the file
\* named by dist_url creates the rendezvous file; a file left by an earlier
\* process makes the call fail (train.py:77-78).
_setup_process_group ==
    /\ Running("UNSTARTED")
    /\ LET f == rendezvous_file(self._cluster_cfg)
       IN IF f \in DOMAIN fs
          THEN /\ pc' = "FAILED"
               /\ err' = "RuntimeError"
               /\ UNCHANGED <<fs, group>>
          ELSE /\ fs' = Put(fs, f, File(<<>>, <<>>))
               /\ group' = TRUE
               /\ pc' = "GROUP_JOINED"
               /\ err' = err
    /\ UNCHANGED <<ranks, dirs, self, ck, rm_init, ck_from, ret_vars, locals, loop_vars,
                   launches, history>>

\* _init_state, train.py:96-141: data loader, backbone, weight loading.
_init_state ==
    /\ Running("GROUP_JOINED")
    /\ LET cfg == self._train_cfg
           test_set == fs[cfg.dataset_path].arr
           model == backbone(cfg.architecture)
           pretrained_dict == fs[cfg.weight_path].obj["model"]
       IN /\ self' = SetAttr(self, "_test_loader",
                             DataLoader(test_set, cfg.batch_per_gpu))
          /\ IF model = None
             THEN /\ pc' = "FAILED"
                  /\ err' = "UnboundLocalError"
                  /\ locals' = locals
             ELSE LET r == load_weights(state_dict(model[1]), pretrained_dict)
                  IN /\ locals' = Some([model |->
                                          load_state_dict(model[1], r.model_dict),
                                        count |-> r.count, count2 |-> r.count2])
                     /\ pc' = "INIT_STATE"
                     /\ err' = err
    /\ UNCHANGED <<ranks, fs, dirs, ck, rm_init, ck_from, ret_vars, loop_vars, group,
                   launches, history>>

\* _init_state, train.py:142-164: coverage assertion, freeze, device and
\* DistributedDataParallel, TrainerState, resume from an existing checkpoint.
resume_step ==
    /\ Running("INIT_STATE")
    /\ locals' = None
    /\ IF ~coverage_ok(locals[1].count, locals[1].count2)
       THEN /\ pc' = "FAILED"
            /\ err' = "AssertionError"
            /\ UNCHANGED <<self, history>>
       ELSE LET frozen == freeze(locals[1].model)
                model == IF cuda_is_available
                         THEN DistributedDataParallel(frozen) ELSE frozen
                state == TrainerState(model)
                fn == checkpoint_fn(self._train_cfg)
            IN IF fn \in DOMAIN fs                      \* os.path.isfile
               THEN IF load_ok(fs, fn, state)
                    THEN /\ self' = SetAttr(self, "_state",
                                            load(fs, fn, state))
                         /\ history' = Append(history,
                                 state_dict(load(fs, fn, state).model))
                         /\ pc' = "STATE_READY"
                         /\ err' = err
                    ELSE /\ self' = SetAttr(self, "_state",
                               IF torch_load_ok(fs, fn)
                                  /\ "model" \in DOMAIN fs[fn].obj
                               THEN TrainerState(load_state_dict(model,
                                                    fs[fn].obj["model"]))
                               ELSE state)
                         /\ pc' = "FAILED"
                         /\ err' = "DeserializationError"
                         /\ history' = history
               ELSE /\ self' = SetAttr(self, "_state", state)
                    /\ history' = Append(history, state_dict(model))
                    /\ pc' = "STATE_READY"
                    /\ err' = err
    /\ UNCHANGED <<ranks, dirs, ck, rm_init, ck_from, ret_vars, loop_vars, group,
                   launches>>

\* _init_state removing the checkpoint file it has resumed from.
_init_state_resume_consuming ==
    /\ resume_step
    /\ fs' = IF pc' = "STATE_READY"
                /\ checkpoint_fn(self._train_cfg) \in DOMAIN fs
             THEN Remove(fs, checkpoint_fn(self._train_cfg)) ELSE fs

\* _init_state reads the filesystem and writes nothing to it.
_init_state_resume == resume_step /\ UNCHANGED fs

\* _train, train.py:167-172: eval mode, the three accumulators start as None.
_train ==
    /\ Running("STATE_READY")
    /\ self' = [self EXCEPT !._state.model.training = FALSE]
    /\ embedding' = None
    /\ softmax_probability' = None
    /\ exctract_label' = None
    /\ it' = 0
    /\ saved' = 0
    /\ pc' = "RUNNING"
    /\ UNCHANGED <<ranks, fs, dirs, ck, rm_init, ck_from, err, ret_vars, locals, group,
                   launches, history>>

\* _train, train.py:173-185: one iteration of the loop over the loader.
_train_batch ==
    /\ Running("RUNNING")
    /\ it < num_batches(self._test_loader)
    /\ LET cfg == self._train_cfg
           data == batch(self._test_loader, it + 1)
           images == cuda(data.images, cfg.local_rank)
           labels == cuda(data.labels, cfg.local_rank)
           out == forward(self._state.model, images)
       IN IF embedding = None
          THEN /\ softmax_probability' =
                     Some(conv_numpy_tensor(Softmax(out.outputs)))
               /\ embedding' = Some(conv_numpy_tensor(out.embed))
               /\ exctract_label' = Some(conv_numpy_tensor(labels))
          ELSE /\ softmax_probability' =
                     Some(np_concatenate(softmax_probability[1],
                              conv_numpy_tensor(Softmax(out.outputs))))
               /\ embedding' =
                     Some(np_concatenate(embedding[1],
                              conv_numpy_tensor(out.embed)))
               /\ exctract_label' =
                     Some(np_concatenate(exctract_label[1],
                              conv_numpy_tensor(labels)))
    /\ it' = it + 1
    /\ UNCHANGED <<ranks, fs, dirs, self, pc, ck, rm_init, ck_from, err, ret_vars, locals,
                   saved, group, launches, history>>

\* _train without its return value: the loop ends and nothing is returned.
_train_save_no_return ==
    /\ Running("RUNNING")
    /\ it = num_batches(self._test_loader)
    /\ LET arr == IF saved = 0 THEN exctract_label
                  ELSE IF saved = 1 THEN embedding
                  ELSE softmax_probability
       IN fs' = Put(fs, output_fn(self._train_cfg, saved + 1),
                    File(<<>>, arr[1]))
    /\ saved' = saved + 1
    /\ pc' = IF saved = 2 THEN "DONE" ELSE pc
    /\ UNCHANGED <<ranks, dirs, self, ck, rm_init, ck_from, err, ret_vars, locals, it,
                   softmax_probability, embedding, exctract_label, group,
                   launches, history>>

\* _train, train.py:188-191: the loop is over; one np.save per step, the
\* return after the third.
_train_save ==
    /\ Running("RUNNING")
    /\ it = num_batches(self._test_loader)
    /\ LET arr == IF saved = 0 THEN exctract_label
                  ELSE IF saved = 1 THEN embedding
                  ELSE softmax_probability
       IN fs' = Put(fs, output_fn(self._train_cfg, saved + 1),
                    File(<<>>, arr[1]))
    /\ saved' = saved + 1
    /\ IF saved = 2
       THEN pc' = "DONE" /\ final_acc' = Some(0)
       ELSE pc' = pc /\ final_acc' = final_acc
    /\ UNCHANGED <<ranks, dirs, self, ck, rm_init, ck_from, err, empty_trainer, locals, it,
                   softmax_probability, embedding, exctract_label, group,
                   launches, history>>

\* checkpoint() that opens checkpoint.pth for writing before it looks up
\* the state it is about to save.
checkpoint_eager ==
    /\ Alive
    /\ ck = "idle"
    /\ \E flag \in BOOLEAN : rm_init' = flag
    /\ ck_from' = pc
    /\ dirs' = dirs \cup {save_dir(self._train_cfg)}
    /\ fs' = Put(fs, checkpoint_fn(self._train_cfg), Truncated)
    /\ IF HasAttr(self, "_state")
       THEN ck' = "write" /\ UNCHANGED <<pc, err>>
       ELSE /\ ck' = "raised"
            /\ pc' = "FAILED"
            /\ err' = "AttributeError"
    /\ UNCHANGED <<ranks, self, ret_vars, locals, loop_vars, group, launches,
                   history>>

(***************************************************************************)
(* Trainer.checkpoint (train.py:70-84), called by the scheduler on         *)
(* preemption; it interrupts the main flow of the process.                 *)
(***************************************************************************)
\* train.py:73-75 up to the call of save: makedirs, then self._state.
checkpoint ==
    /\ Alive
    /\ ck = "idle"
    /\ \E flag \in BOOLEAN : rm_init' = flag
    /\ ck_from' = pc
    /\ dirs' = dirs \cup {save_dir(self._train_cfg)}
    /\ IF HasAttr(self, "_state")
       THEN ck' = "save" /\ UNCHANGED <<pc, err>>
       ELSE /\ ck' = "raised"
            /\ pc' = "FAILED"
            /\ err' = "AttributeError"
    /\ UNCHANGED <<ranks, fs, self, ret_vars, locals, loop_vars, group, launches,
                   history>>

\* TrainerState.save (train.py:36-41): torch.save opens the destination for
\* writing, which empties a file that is already there.
save ==
    /\ Alive
    /\ ck = "save"
    /\ fs' = Put(fs, checkpoint_fn(self._train_cfg), Truncated)
    /\ ck' = "write"
    /\ UNCHANGED <<ranks, dirs, self, pc, rm_init, ck_from, err, ret_vars, locals, loop_vars,
                   group, launches, history>>

\* torch.save (train.py:41): the pickled data is written and the file closed.
torch_save ==
    /\ Alive
    /\ ck = "write"
    /\ fs' = Put(fs, checkpoint_fn(self._train_cfg),
                 File(save_data(self._state), <<>>))
    /\ ck' = "saved"
    /\ UNCHANGED <<ranks, dirs, self, pc, rm_init, ck_from, err, ret_vars, locals, loop_vars,
                   group, launches, history>>

\* The tail of checkpoint() with the rendezvous file removed first, before
\* the epoch-suffixed copy is attempted.
checkpoint_requeue_remove_first ==
    /\ Alive
    /\ ck = "saved"
    /\ LET f == rendezvous_file(self._cluster_cfg)
           fs0 == IF rm_init /\ f \in DOMAIN fs THEN Remove(fs, f) ELSE fs
       IN IF ~HasAttr(self._state, "epoch")
          THEN /\ fs' = fs0
               /\ ck' = "raised"
               /\ pc' = "FAILED"
               /\ err' = "AttributeError"
               /\ empty_trainer' = empty_trainer
          ELSE /\ fs' = Put(fs0, osp_join(save_dir(self._train_cfg),
                             "checkpoint_" \o str(self._state.epoch) \o ".pth"),
                            File(save_data(self._state), <<>>))
               /\ empty_trainer' =
                      Some(Trainer(self._train_cfg, self._cluster_cfg))
               /\ ck' = "returned"
               /\ pc' = "CHECKPOINTED"
               /\ err' = err
    /\ UNCHANGED <<ranks, dirs, self, rm_init, ck_from, final_acc, locals, loop_vars, group,
                   launches, history>>

\* train.py:76-84: the epoch-suffixed copy, the removal of the rendezvous
\* file, the config-only twin.  self._state.epoch is looked up first.
checkpoint_requeue ==
    /\ Alive
    /\ ck = "saved"
    /\ IF ~HasAttr(self._state, "epoch")
       THEN /\ ck' = "raised"
            /\ pc' = "FAILED"
            /\ err' = "AttributeError"
            /\ UNCHANGED <<fs, empty_trainer>>
       ELSE LET cfg == self._train_cfg
                epoch_fn == osp_join(save_dir(cfg),
                    "checkpoint_" \o str(self._state.epoch) \o ".pth")
                fs1 == Put(fs, epoch_fn, File(save_data(self._state), <<>>))
                f == rendezvous_file(self._cluster_cfg)
            IN IF rm_init /\ f \notin DOMAIN fs1
               THEN /\ fs' = fs1
                    /\ ck' = "raised"
                    /\ pc' = "FAILED"
                    /\ err' = "FileNotFoundError"
                    /\ empty_trainer' = empty_trainer
               ELSE /\ fs' = IF rm_init THEN Remove(fs1, f) ELSE fs1
                    /\ empty_trainer' =
                           Some(Trainer(self._train_cfg, self._cluster_cfg))
                    /\ ck' = "returned"
                    /\ pc' = "CHECKPOINTED"
                    /\ err' = err
    /\ UNCHANGED <<ranks, dirs, self, rm_init, ck_from, final_acc, locals, loop_vars, group,
                   launches, history>>

(***************************************************************************)
(* The environment of the worker process                                   *)
(***************************************************************************)
\* The process is killed (preemption without grace, node failure).
kill ==
    /\ Alive
    /\ pc' = "KILLED"
    /\ UNCHANGED <<ranks, fs, dirs, self, ck, rm_init, ck_from, err, ret_vars, locals,
                   loop_vars, group, launches, history>>

\* The process ends after a return or an uncaught exception.  The file store
\* of its process group removes the rendezvous file on a best-effort basis.
process_exit ==
    /\ pc \in {"DONE", "FAILED", "CHECKPOINTED"}
    /\ pc' = "EXITED"
    /\ \E cleaned \in BOOLEAN :
          LET f == rendezvous_file(self._cluster_cfg)
          IN fs' = IF cleaned /\ group /\ f \in DOMAIN fs
                   THEN Remove(fs, f) ELSE fs
    /\ UNCHANGED <<ranks, dirs, self, ck, rm_init, ck_from, err, ret_vars, locals, loop_vars,
                   group, launches, history>>

\* The scheduler starts the job again: a new process calls a config-only
\* Trainer built from the same configs (train.py:55-57, 77).
relaunch ==
    /\ pc \in {"EXITED", "KILLED"}
    /\ launches < MaxLaunches
    /\ launches' = launches + 1
    /\ self' = Trainer(self._train_cfg, self._cluster_cfg)
    /\ pc' = "UNSTARTED"
    /\ ck' = "idle"
    /\ err' = ""
    /\ final_acc' = None
    /\ empty_trainer' = None
    /\ locals' = None
    /\ it' = 0
    /\ softmax_probability' = None
    /\ embedding' = None
    /\ exctract_label' = None
    /\ saved' = 0
    /\ group' = FALSE
    /\ ck_from' = ""
    /\ UNCHANGED <<ranks, fs, dirs, rm_init, history>>

Next ==
    \/ _setup_process_group
    \/ _init_state
    \/ _init_state_resume
    \/ _train
    \/ _train_batch
    \/ _train_save
    \/ checkpoint
    \/ save
    \/ torch_save
    \/ checkpoint_requeue
    \/ kill
    \/ process_exit
    \/ relaunch

Spec == Init /\ [][Next]_vars

\* Trainer.__call__ (train.py:59-68) is sequential code: while the process is
\* neither killed nor interrupted by checkpoint(), its next statement runs.
__call__ ==
    \/ _setup_process_group
    \/ _init_state
    \/ _init_state_resume
    \/ _train
    \/ _train_batch
    \/ _train_save

FairSpec == Spec /\ WF_vars(__call__)

TypeOK ==
    /\ pc \in {"UNSTARTED", "GROUP_JOINED", "INIT_STATE", "STATE_READY",
               "RUNNING", "DONE", "CHECKPOINTED", "FAILED", "KILLED",
               "EXITED"}
    /\ ck \in {"idle", "save", "write", "saved", "raised", "returned"}
    /\ launches \in 1..MaxLaunches

(***************************************************************************)
(* A run of several ranks: one worker process per rank, each calling its   *)
(* own Trainer on the shared file system.  The configs of the ranks differ *)
(* in local_rank and global_rank only.                                     *)
(***************************************************************************)
NumRanks == 2
Ranks == 1..NumRanks

RankConfig(r, bs) ==
    [TrainerConfig("ResNet50", bs) EXCEPT
        !.local_rank = r - 1, !.global_rank = r - 1, !.num_tasks = NumRanks]

\* The process of rank r before it calls its Trainer.
NewRank(r, bs) ==
    [self |-> Trainer(RankConfig(r, bs), ClusterConfig),
     pc |-> "UNSTARTED", ck |-> "idle", err |-> "",
     it |-> 0, softmax_probability |-> None, embedding |-> None,
     exctract_label |-> None, saved |-> 0,
     final_acc |-> None, empty_trainer |-> None]

\* The variables of the single-process run, which a run of ranks leaves
\* alone.
single_vars == <<self, pc, ck, rm_init, ck_from, err, final_acc, empty_trainer,
                 locals, it, softmax_probability, embedding, exctract_label,
                 saved, group, launches, history>>

InitRanks ==
    /\ \E bs \in 1..MaxBatch, n \in 1..MaxSamples :
        LET cfg == TrainerConfig("ResNet50", bs)
        IN /\ fs = Put(Put(<<>>, cfg.weight_path,
                           File([model |-> [pk \in DDPKeys |->
                                               PretrainedTensor(pk)]], <<>>)),
                       cfg.dataset_path, File(<<>>, Samples(n)))
           /\ self = Trainer(cfg, ClusterConfig)
           /\ ranks = [r \in Ranks |-> NewRank(r, bs)]
    /\ dirs = {}
    /\ pc = "UNSTARTED"
    /\ ck = "idle"
    /\ rm_init = TRUE
    /\ ck_from = ""
    /\ err = ""
    /\ final_acc = None
    /\ empty_trainer = None
    /\ locals = None
    /\ it = 0
    /\ softmax_probability = None
    /\ embedding = None
    /\ exctract_label = None
    /\ saved = 0
    /\ group = FALSE
    /\ launches = 1
    /\ history = <<>>

RankAlive(r) ==
    ranks[r].pc \in {"UNSTARTED", "JOINING", "GROUP_JOINED", "STATE_READY",
                     "RUNNING"}

\* The main flow of rank r is at p and no checkpoint() call interrupts it.
RankRunning(r, p) == ranks[r].pc = p /\ ranks[r].ck = "idle"

\* _setup_process_group (train.py:86-94), first half: init_process_group on
\* the file:// store registers the rank in the rendezvous file, which the
\* first rank to arrive creates.
rank_init_process_group(r) ==
    /\ RankRunning(r, "UNSTARTED")
    /\ LET f == rendezvous_file(ranks[r].self._cluster_cfg)
           joined == IF f \in DOMAIN fs THEN fs[f].arr ELSE <<>>
       IN fs' = Put(fs, f, File(<<>>,
                   Append(joined, ranks[r].self._train_cfg.global_rank)))
    /\ ranks' = [ranks EXCEPT ![r].pc = "JOINING"]
    /\ UNCHANGED <<dirs, single_vars>>

\* _setup_process_group, second half: init_process_group returns once
\* world_size ranks have registered.
rank_setup_process_group(r) ==
    /\ RankRunning(r, "JOINING")
    /\ LET f == rendezvous_file(ranks[r].self._cluster_cfg)
       IN /\ f \in DOMAIN fs
          /\ Len(fs[f].arr) = ranks[r].self._train_cfg.num_tasks
    /\ ranks' = [ranks EXCEPT ![r].pc = "GROUP_JOINED"]
    /\ UNCHANGED <<fs, dirs, single_vars>>

\* _init_state (train.py:96-164) of rank r, as one step.
rank_init_state(r) ==
    /\ RankRunning(r, "GROUP_JOINED")
    /\ LET me == ranks[r]
           cfg == me.self._train_cfg
           with_loader == SetAttr(me.self, "_test_loader",
               DataLoader(fs[cfg.dataset_path].arr, cfg.batch_per_gpu))
           model == backbone(cfg.architecture)
           w == load_weights(state_dict(model[1]),
                             fs[cfg.weight_path].obj["model"])
           wrapped == DistributedDataParallel(
                          freeze(load_state_dict(model[1], w.model_dict)))
           state == TrainerState(wrapped)
           fn == checkpoint_fn(cfg)
       IN ranks' = [ranks EXCEPT ![r] =
            IF model = None
            THEN [me EXCEPT !.self = with_loader, !.pc = "FAILED",
                            !.err = "UnboundLocalError"]
            ELSE IF ~coverage_ok(w.count, w.count2)
            THEN [me EXCEPT !.self = with_loader, !.pc = "FAILED",
                            !.err = "AssertionError"]
            ELSE IF fn \notin DOMAIN fs
            THEN [me EXCEPT !.self = SetAttr(with_loader, "_state", state),
                            !.pc = "STATE_READY"]
            ELSE IF load_ok(fs, fn, state)
            THEN [me EXCEPT !.self = SetAttr(with_loader, "_state",
                                             load(fs, fn, state)),
                            !.pc = "STATE_READY"]
            ELSE [me EXCEPT !.self = SetAttr(with_loader, "_state",
                               IF torch_load_ok(fs, fn)
                                  /\ "model" \in DOMAIN fs[fn].obj
                               THEN TrainerState(load_state_dict(wrapped,
                                                    fs[fn].obj["model"]))
                               ELSE state),
                            !.pc = "FAILED",
                            !.err = "DeserializationError"]]
    /\ UNCHANGED <<fs, dirs, single_vars>>

\* _train (train.py:167-172) of rank r.
rank_train(r) ==
    /\ RankRunning(r, "STATE_READY")
    /\ ranks' = [ranks EXCEPT ![r].self._state.model.training = FALSE,
                              ![r].embedding = None,
                              ![r].softmax_probability = None,
                              ![r].exctract_label = None,
                              ![r].it = 0,
                              ![r].saved = 0,
                              ![r].pc = "RUNNING"]
    /\ UNCHANGED <<fs, dirs, single_vars>>

\* _train (train.py:173-185) of rank r: one iteration over its loader.
rank_train_batch(r) ==
    /\ RankRunning(r, "RUNNING")
    /\ ranks[r].it < num_batches(ranks[r].self._test_loader)
    /\ LET me == ranks[r]
           cfg == me.self._train_cfg
           data == batch(me.self._test_loader, me.it + 1)
           images == cuda(data.images, cfg.local_rank)
           labels == cuda(data.labels, cfg.local_rank)
           out == forward(me.self._state.model, images)
           first == me.embedding = None
           add(acc, rows) == IF first THEN Some(rows)
                             ELSE Some(np_concatenate(acc[1], rows))
       IN ranks' = [ranks EXCEPT
            ![r].softmax_probability =
                add(me.softmax_probability,
                    conv_numpy_tensor(Softmax(out.outputs))),
            ![r].embedding = add(me.embedding, conv_numpy_tensor(out.embed)),
            ![r].exctract_label =
                add(me.exctract_label, conv_numpy_tensor(labels)),
            ![r].it = me.it + 1]
    /\ UNCHANGED <<fs, dirs, single_vars>>

\* _train (train.py:188-191) of rank r: one np.save per step, then return.
rank_train_save(r) ==
    /\ RankRunning(r, "RUNNING")
    /\ ranks[r].it = num_batches(ranks[r].self._test_loader)
    /\ LET me == ranks[r]
           arr == IF me.saved = 0 THEN me.exctract_label
                  ELSE IF me.saved = 1 THEN me.embedding
                  ELSE me.softmax_probability
       IN /\ fs' = Put(fs, output_fn(me.self._train_cfg, me.saved + 1),
                       File(<<>>, arr[1]))
          /\ ranks' = [ranks EXCEPT
                ![r].saved = me.saved + 1,
                ![r].pc = IF me.saved = 2 THEN "DONE" ELSE me.pc,
                ![r].final_acc = IF me.saved = 2 THEN Some(0)
                                 ELSE me.final_acc]
    /\ UNCHANGED <<dirs, single_vars>>

\* checkpoint() of rank r (train.py:73-75), called by the scheduler with the
\* default rm_init=True: makedirs, then self._state.
rank_checkpoint(r) ==
    /\ RankAlive(r)
    /\ ranks[r].ck = "idle"
    /\ dirs' = dirs \cup {save_dir(ranks[r].self._train_cfg)}
    /\ ranks' = [ranks EXCEPT ![r] =
          IF HasAttr(ranks[r].self, "_state")
          THEN [ranks[r] EXCEPT !.ck = "save"]
          ELSE [ranks[r] EXCEPT !.ck = "raised", !.pc = "FAILED",
                                !.err = "AttributeError"]]
    /\ UNCHANGED <<fs, single_vars>>

\* TrainerState.save of rank r (train.py:36-41): torch.save opens the file.
rank_save(r) ==
    /\ RankAlive(r)
    /\ ranks[r].ck = "save"
    /\ fs' = Put(fs, checkpoint_fn(ranks[r].self._train_cfg), Truncated)
    /\ ranks' = [ranks EXCEPT ![r].ck = "write"]
    /\ UNCHANGED <<dirs, single_vars>>

\* torch.save of rank r (train.py:41): the data is written, the file closed.
rank_torch_save(r) ==
    /\ RankAlive(r)
    /\ ranks[r].ck = "write"
    /\ fs' = Put(fs, checkpoint_fn(ranks[r].self._train_cfg),
                 File(save_data(ranks[r].self._state), <<>>))
    /\ ranks' = [ranks EXCEPT ![r].ck = "saved"]
    /\ UNCHANGED <<dirs, single_vars>>

\* train.py:76-84 of rank r: the epoch-suffixed copy, os.remove of the
\* rendezvous file, the config-only twin.
rank_checkpoint_requeue(r) ==
    /\ RankAlive(r)
    /\ ranks[r].ck = "saved"
    /\ LET me == ranks[r]
           cfg == me.self._train_cfg
           f == rendezvous_file(me.self._cluster_cfg)
           epoch_fn == osp_join(save_dir(cfg),
               "checkpoint_" \o str(me.self._state.epoch) \o ".pth")
           fs1 == Put(fs, epoch_fn, File(save_data(me.self._state), <<>>))
       IN IF ~HasAttr(me.self._state, "epoch")
          THEN /\ fs' = fs
               /\ ranks' = [ranks EXCEPT ![r].ck = "raised",
                                         ![r].pc = "FAILED",
                                         ![r].err = "AttributeError"]
          ELSE IF f \notin DOMAIN fs1
          THEN /\ fs' = fs1
               /\ ranks' = [ranks EXCEPT ![r].ck = "raised",
                                         ![r].pc = "FAILED",
                                         ![r].err = "FileNotFoundError"]
          ELSE /\ fs' = Remove(fs1, f)
               /\ ranks' = [ranks EXCEPT ![r].ck = "returned",
                                         ![r].pc = "CHECKPOINTED",
                                         ![r].empty_trainer =
                                             Some(Trainer(cfg,
                                                      me.self._cluster_cfg))]
    /\ UNCHANGED <<dirs, single_vars>>

NextRanks ==
    \/ \E r \in Ranks : rank_init_process_group(r)
    \/ \E r \in Ranks : rank_setup_process_group(r)
    \/ \E r \in Ranks : rank_init_state(r)
    \/ \E r \in Ranks : rank_train(r)
    \/ \E r \in Ranks : rank_train_batch(r)
    \/ \E r \in Ranks : rank_train_save(r)
    \/ \E r \in Ranks : rank_checkpoint(r)
    \/ \E r \in Ranks : rank_save(r)
    \/ \E r \in Ranks : rank_torch_save(r)
    \/ \E r \in Ranks : rank_checkpoint_requeue(r)

SpecRanks == InitRanks /\ [][NextRanks]_vars

(***************************************************************************)
(* Properties                                                              *)
(***************************************************************************)
\* A checkpoint() call has just ended, by a return or by an exception.
CheckpointEnded ==
    ck \in {"raised", "returned"} /\ pc \in {"FAILED", "CHECKPOINTED"}

Cfg == self._train_cfg

\* The files of save_dir other than checkpoint.pth.
EpochFiles ==
    {p \in DOMAIN fs : dirname(p) = save_dir(Cfg) /\ p # checkpoint_fn(Cfg)}

\* C1: after checkpoint() on a trainer whose state is initialised
\* (STATE_READY or RUNNING), checkpoint.pth and an epoch-suffixed sibling
\* file both exist and hold the current model parameters.
C1_BothCheckpointFilesWritten ==
    (CheckpointEnded /\ ck_from \in {"STATE_READY", "RUNNING"}) =>
        /\ checkpoint_fn(Cfg) \in DOMAIN fs
        /\ fs[checkpoint_fn(Cfg)] = File(save_data(self._state), <<>>)
        /\ \E p \in EpochFiles : fs[p] = File(save_data(self._state), <<>>)

\* C2: checkpoint() on a RUNNING trainer returns a new Trainer holding
\* exactly the original TrainerConfig and ClusterConfig and nothing else.
C2_ReturnsConfigOnlyTrainer ==
    (CheckpointEnded /\ ck_from = "RUNNING") =>
        /\ empty_trainer # None
        /\ DOMAIN empty_trainer[1] = {"_train_cfg", "_cluster_cfg"}
        /\ empty_trainer[1]._train_cfg = self._train_cfg
        /\ empty_trainer[1]._cluster_cfg = self._cluster_cfg

RendezvousExists == rendezvous_file(self._cluster_cfg) \in DOMAIN fs

\* A step of the Trainer itself (not the end of the process or a relaunch).
TrainerStep == Alive /\ pc' # "KILLED"

\* C3: the rendezvous file is deleted only by checkpoint() and only when
\* rm_init is true: after checkpoint(rm_init=True) on a RUNNING trainer the
\* file is gone, after checkpoint(rm_init=False) it is left as it was, and
\* no other operation of the Trainer deletes it.
C3_RendezvousRemovedOnlyByRequeue ==
    /\ [](CheckpointEnded /\ ck_from = "RUNNING" /\ rm_init
             => ~RendezvousExists)
    /\ [][(TrainerStep /\ RendezvousExists /\ ~RendezvousExists')
             => (ck = "saved" /\ rm_init)]_vars
    /\ [](CheckpointEnded /\ ck_from = "RUNNING" /\ ~rm_init
             => RendezvousExists)

Pretrained == fs[Cfg.weight_path].obj["model"]

\* every target key has its 'module.'-prefixed key in the pretrained mapping
FullCoverage == \A k \in ModelKeys : Prefix(k) \in DOMAIN Pretrained

OutputFiles == {output_fn(Cfg, i) : i \in 1..3}

\* C4: state initialisation gets past weight loading iff every target key k
\* has 'module.'+k in the pretrained mapping; below 100% the assertion
\* fails, no TrainerState is created, the loop never runs and no output file
\* is written.  Pretrained keys matching no target key play no part.
C4_CoverageGate ==
    /\ [](/\ HasAttr(self, "_state") => FullCoverage
          /\ err = "AssertionError" => ~FullCoverage
          /\ ~FullCoverage =>
                /\ ~HasAttr(self, "_state")
                /\ pc \notin {"STATE_READY", "RUNNING", "DONE"}
                /\ exctract_label = None /\ embedding = None
                /\ softmax_probability = None
                /\ OutputFiles \cap DOMAIN fs = {})
    /\ [][(Running("INIT_STATE") /\ ck' = "idle" /\ pc' # "KILLED") =>
             IF FullCoverage THEN err' # "AssertionError"
             ELSE pc' = "FAILED" /\ err' = "AssertionError"]_vars

\* C4 witness: two of three pretrained keys match (one target key uncovered,
\* one pretrained key unmatched) and the assertion has ended the process.
C4_Witness ==
    /\ pc = "FAILED" /\ err = "AssertionError"
    /\ ExtraKey \in DOMAIN Pretrained
    /\ \E k \in ModelKeys : Prefix(k) \in DOMAIN Pretrained
    /\ \E k \in ModelKeys : Prefix(k) \notin DOMAIN Pretrained

\* C5: the weight loader copies the pretrained value under every target key
\* k with 'module.'+k in the pretrained mapping, leaves the other target
\* values unchanged, and does not change the set of target keys.
C5_WeightCopy ==
    pc = "INIT_STATE" =>
        /\ DOMAIN locals[1].model.params = DOMAIN NewModel.params
        /\ \A k \in DOMAIN NewModel.params :
              locals[1].model.params[k] =
                  IF Prefix(k) \in DOMAIN Pretrained
                  THEN Pretrained[Prefix(k)]
                  ELSE NewModel.params[k]

\* C5 witness: weights loaded with one key copied and one key left alone.
C5_Witness ==
    /\ pc = "INIT_STATE"
    /\ \E k \in ModelKeys :
          /\ Prefix(k) \in DOMAIN Pretrained
          /\ locals[1].model.params[k] = Pretrained[Prefix(k)]
    /\ \E k \in ModelKeys :
          /\ Prefix(k) \notin DOMAIN Pretrained
          /\ locals[1].model.params[k] = NewModel.params[k]

CheckpointComplete ==
    checkpoint_fn(Cfg) \in DOMAIN fs /\ fs[checkpoint_fn(Cfg)].complete

\* C6: TrainerState.save is atomic with respect to crashes: a path holding
\* a complete checkpoint holds a complete checkpoint (the previous or the new
\* one) at every point at which the process may be killed.
C6_SaveIsAtomic == [][CheckpointComplete => CheckpointComplete']_vars

\* A freshly constructed template of the trainer's architecture.
Template == TrainerState(DistributedDataParallel(freeze(NewModel)))

\* C7: saving a TrainerState s and loading the file into a fresh template of
\* the same architecture reproduces the parameter mapping of s and the epoch
\* marker of s.
C7_RoundTrip ==
    ck = "saved" =>
        /\ load_ok(fs, checkpoint_fn(Cfg), Template)
        /\ LET s == self._state
               t == load(fs, checkpoint_fn(Cfg), Template)
           IN /\ state_dict(t.model) = state_dict(s.model)
              /\ HasAttr(s, "epoch")
              /\ HasAttr(t, "epoch")
              /\ t.epoch = s.epoch

\* C8: at the end of a successful state-init the model parameters are those
\* stored in checkpoint.pth if that file exists, and the pretrained weights
\* if it does not.
C8_InitOrResume ==
    [][(pc = "INIT_STATE" /\ pc' = "STATE_READY") =>
          IF checkpoint_fn(Cfg) \in DOMAIN fs
          THEN state_dict(self'._state.model)
                   = fs[checkpoint_fn(Cfg)].obj["model"]
          ELSE \A k \in ModelKeys :
                   self'._state.model.params[k] = Pretrained[Prefix(k)]]_vars

\* C8 witness: state-init has resumed from a checkpoint whose contents
\* differ from the pretrained weights.
C8_Witness ==
    /\ pc = "STATE_READY" /\ ck = "idle"
    /\ CheckpointComplete
    /\ state_dict(self._state.model) = fs[checkpoint_fn(Cfg)].obj["model"]
    /\ \E k \in ModelKeys :
          self._state.model.params[k] # Pretrained[Prefix(k)]

Dataset == fs[Cfg.dataset_path].arr

\* number of samples the first j batches hold
Consumed(j) ==
    IF j * Cfg.batch_per_gpu < Len(Dataset)
    THEN j * Cfg.batch_per_gpu ELSE Len(Dataset)

\* C9: when the loop persists its outputs, labels, embedding and softmax
\* have one entry per sample of the dataset, entry i of each comes from
\* sample i, in the order of the data source; every batch has contributed
\* exactly once.
C9_OutputAlignment ==
    /\ (pc = "RUNNING" /\ embedding # None) =>
          /\ Len(exctract_label[1]) = Consumed(it)
          /\ Len(embedding[1]) = Consumed(it)
          /\ Len(softmax_probability[1]) = Consumed(it)
    /\ (pc = "RUNNING" /\ it = num_batches(self._test_loader)) =>
          /\ Len(exctract_label[1]) = Len(Dataset)
          /\ Len(embedding[1]) = Len(Dataset)
          /\ Len(softmax_probability[1]) = Len(Dataset)
          /\ \A i \in 1..Len(Dataset) :
                /\ exctract_label[1][i] = Dataset[i].label
                /\ embedding[1][i] = <<"embed", Dataset[i].image>>
                /\ softmax_probability[1][i] = <<"softmax", Dataset[i].image>>
    /\ pc = "DONE" =>
          /\ fs[output_fn(Cfg, 1)].arr = exctract_label[1]
          /\ fs[output_fn(Cfg, 2)].arr = embedding[1]
          /\ fs[output_fn(Cfg, 3)].arr = softmax_probability[1]

\* C9 witness: outputs about to be persisted after at least two batches of
\* different sizes.
C9_Witness ==
    /\ pc = "RUNNING" /\ ck = "idle"
    /\ it = num_batches(self._test_loader)
    /\ it >= 2
    /\ Len(Dataset) % Cfg.batch_per_gpu # 0
    /\ Cfg.batch_per_gpu > 1

\* A step of _init_state (not a kill, not a checkpoint() call).
StateInitStep ==
    /\ pc \in {"GROUP_JOINED", "INIT_STATE"}
    /\ ck = "idle" /\ ck' = "idle"
    /\ pc' # "KILLED"

\* C10: a relaunch that runs state-init again on the same job ends with the
\* same model parameters as the first state-init, and state-init does not
\* modify the checkpoint file.
C10_IdempotentResume ==
    /\ [](\A i, j \in DOMAIN history : history[i] = history[j])
    /\ [][StateInitStep => fs' = fs]_vars

\* C10 witness: two processes have completed state-init against the same
\* checkpoint file, whose contents differ from the pretrained weights.
C10_Witness ==
    /\ Len(history) = 2
    /\ pc = "STATE_READY"
    /\ CheckpointComplete
    /\ history[1] = fs[checkpoint_fn(Cfg)].obj["model"]
    /\ history[2] = fs[checkpoint_fn(Cfg)].obj["model"]
    /\ \E k \in ModelKeys : history[2][Prefix(k)] # Pretrained[Prefix(k)]

\* C11: after checkpoint(rm_init=True) on a RUNNING trainer, the object it
\* returned is what the relaunch calls, and at relaunch time the rendezvous
\* file of the previous run is gone, so that the new process can join.
C11_RequeueRecovery ==
    [][(pc = "EXITED" /\ pc' = "UNSTARTED"
        /\ ck_from = "RUNNING" /\ ck \in {"raised", "returned"} /\ rm_init)
          => /\ empty_trainer # None
             /\ self' = empty_trainer[1]
             /\ ~RendezvousExists']_vars

\* The order of the lifecycle within one process, with the ways out of it.
LifecycleOrder ==
    {<<"UNSTARTED", "GROUP_JOINED">>, <<"GROUP_JOINED", "INIT_STATE">>,
     <<"INIT_STATE", "STATE_READY">>, <<"STATE_READY", "RUNNING">>,
     <<"RUNNING", "DONE">>}
    \cup ({"UNSTARTED", "GROUP_JOINED", "INIT_STATE", "STATE_READY", "RUNNING"}
            \X {"FAILED", "KILLED"})
    \cup ({"DONE", "FAILED", "CHECKPOINTED"} \X {"EXITED"})
    \cup ({"EXITED", "KILLED"} \X {"UNSTARTED"})

Undeserializable ==
    LET fn == checkpoint_fn(Cfg)
    IN /\ fn \in DOMAIN fs
       /\ \/ ~fs[fn].complete
          \/ "model" \notin DOMAIN fs[fn].obj
          \/ DOMAIN fs[fn].obj["model"] # DDPKeys

\* C13: once a file is detected at the checkpoint path, a failure to
\* deserialise it is fatal: state initialisation fails, there is no fallback
\* to the pretrained weights (STATE_READY is not reached), the inference loop
\* does not run and the process writes no output file.
C13_ResumeFailureIsFatal ==
    /\ [][(Running("INIT_STATE") /\ FullCoverage /\ Undeserializable
             /\ pc' # pc /\ pc' # "KILLED" /\ ck' = "idle")
           => /\ pc' = "FAILED"
              /\ err' = "DeserializationError"
              /\ fs' = fs]_vars
    /\ [](err = "DeserializationError" =>
            /\ pc \in {"FAILED", "EXITED"}
            /\ Undeserializable
            /\ it = 0 /\ saved = 0
            /\ embedding = None /\ softmax_probability = None
            /\ exctract_label = None
            /\ final_acc = None)

\* State initialisation has failed on a checkpoint file that an interrupted
\* save of the previous launch left truncated.
C13_Witness ==
    /\ pc = "FAILED"
    /\ err = "DeserializationError"
    /\ launches = 2
    /\ ~fs[checkpoint_fn(Cfg)].complete

\* Some output file is created or rewritten by the step.
OutputWritten ==
    \E f \in OutputFiles :
        f \in DOMAIN fs' /\ (f \notin DOMAIN fs \/ fs'[f] # fs[f])

\* C14: no progress of the extraction is persisted.  The output files are
\* written only after the last batch, so a process that is killed or
\* checkpointed during the loop has written none; a checkpoint written by
\* checkpoint() holds the model and no batch position; every process starts
\* the loop at the first batch with empty accumulators.
C14_NoProgressPersisted ==
    /\ [][/\ OutputWritten =>
                /\ pc = "RUNNING"
                /\ Consumed(it) = Len(Dataset)
                /\ saved' = saved + 1
          /\ (ck = "write" /\ ck' = "saved") =>
                DOMAIN fs'[checkpoint_fn(Cfg)].obj = {"model"}
          /\ (pc = "STATE_READY" /\ pc' = "RUNNING") =>
                /\ it' = 0
                /\ embedding' = None
                /\ softmax_probability' = None
                /\ exctract_label' = None]_vars
    /\ [](/\ saved > 0 => Consumed(it) = Len(Dataset)
          /\ pc \in {"UNSTARTED", "GROUP_JOINED", "INIT_STATE", "STATE_READY"}
                => it = 0 /\ saved = 0 /\ embedding = None)

\* A process is killed in the middle of the loop, after checkpoint() has
\* written checkpoint.pth, and no output file exists.
C14_Witness ==
    /\ pc = "KILLED"
    /\ ck_from = "RUNNING"
    /\ ck = "saved"
    /\ it > 0
    /\ Consumed(it) < Len(Dataset)
    /\ CheckpointComplete
    /\ OutputFiles \cap DOMAIN fs = {}

\* The architectures _init_state has a branch for (train.py:123-130).
KnownArchitectures == {"PNASNet", "ResNet50", "IGAM_Resnext101_32x48d"}

\* C15: an architecture outside the three supported values is not rejected
\* up front: the process joins the group and builds the data source, then
\* state initialisation fails because no branch has bound the model, before
\* any TrainerState exists.  STATE_READY is never reached, no batch is
\* processed and no output file is written.
C15_UnknownArchitecture ==
    /\ [][Cfg.architecture \notin KnownArchitectures /\ ck' = "idle"
            /\ pc' \notin {pc, "KILLED"} =>
          /\ (Running("UNSTARTED") /\ ~RendezvousExists) =>
                pc' = "GROUP_JOINED" /\ err' = ""
          /\ Running("GROUP_JOINED") =>
                /\ pc' = "FAILED"
                /\ err' = "UnboundLocalError"
                /\ HasAttr(self', "_test_loader")
                /\ ~HasAttr(self', "_state")
                /\ fs' = fs]_vars
    /\ [](Cfg.architecture \notin KnownArchitectures =>
            /\ pc \notin {"INIT_STATE", "STATE_READY", "RUNNING", "DONE"}
            /\ ~HasAttr(self, "_state")
            /\ it = 0 /\ saved = 0 /\ embedding = None
            /\ final_acc = None
            /\ OutputFiles \cap DOMAIN fs = {})
    /\ [](err = "UnboundLocalError" =>
            /\ Cfg.architecture \notin KnownArchitectures
            /\ group
            /\ HasAttr(self, "_test_loader"))

\* State initialisation has failed on an unsupported architecture, after
\* the group was joined and the loader built.
C15_Witness ==
    /\ pc = "FAILED"
    /\ err = "UnboundLocalError"
    /\ Cfg.architecture \notin KnownArchitectures
    /\ group
    /\ HasAttr(self, "_test_loader")
    /\ ~HasAttr(self, "_state")

\* No parameter of the model is trainable.
Frozen(m) == \A k \in DOMAIN m.requires_grad : ~m.requires_grad[k]

BothCheckpointFilesComplete ==
    /\ CheckpointComplete
    /\ EpochFiles # {}
    /\ \A p \in EpochFiles : fs[p].complete

Processed(r) ==
    IF ranks[r].embedding = None THEN {}
    ELSE {ranks[r].embedding[1][i][2] :
            i \in 1..Len(ranks[r].embedding[1])}

\* The output files rank r has written so far.
Written(r) ==
    {output_fn(ranks[r].self._train_cfg, i) : i \in 1..ranks[r].saved}

\* C17: in a run of several ranks, the ranks process pairwise disjoint
\* shards of the dataset (no sample is processed by two ranks) and each rank
\* writes output files of its own.
C17_DisjointShards ==
    \A r1, r2 \in Ranks :
        r1 # r2 => /\ Processed(r1) \cap Processed(r2) = {}
                   /\ Written(r1) \cap Written(r2) = {}

\* C20: when the ranks of a run that hold a state each call
\* checkpoint(rm_init=True), in any interleaving, every call returns a
\* descriptor without an error; once all the calls have ended the
\* rendezvous file is gone and checkpoint.pth holds the complete checkpoint
\* of one rank.
C20_ConcurrentCheckpoint ==
    /\ \A r \in Ranks :
          (ranks[r].ck \in {"raised", "returned"}
             /\ HasAttr(ranks[r].self, "_state"))
          => /\ ranks[r].ck = "returned"
             /\ ranks[r].err = ""
             /\ ranks[r].empty_trainer # None
    /\ (\A r \in Ranks : ranks[r].ck \in {"raised", "returned"}
                           /\ HasAttr(ranks[r].self, "_state"))
       => /\ rendezvous_file(self._cluster_cfg) \notin DOMAIN fs
          /\ CheckpointComplete
          /\ \E r \in Ranks : fs[checkpoint_fn(Cfg)].obj
                                = save_data(ranks[r].self._state)

====
